---- MODULE Spec2Model ----
(***************************************************************************)
(* Banking ledger of src/main.py: two in-memory dictionaries (users_db,    *)
(* loans_db) and the request handlers that read and mutate them.  Every    *)
(* handler is one action: the handlers contain no suspension point that    *)
(* yields to the event loop, so each runs to completion.  The variable     *)
(* response holds what the handler that ran last returned or raised,       *)
(* tagged with its route.                                                  *)
(*                                                                         *)
(* Amounts and balances are Python floats.  A float is modelled as a       *)
(* record [cls, val]: cls "fin" carries a small integer val (small         *)
(* integers are exact in binary64, and so are their sums and               *)
(* differences); cls "big" carries val * 2^60, a magnitude at which the    *)
(* spacing of binary64 is 256, so that adding a small integer rounds back  *)
(* to the same float; the classes "inf", "ninf", "nan" are the non-finite  *)
(* values, which the JSON decoder produces from 1e999, -1e999 and NaN.     *)
(*                                                                         *)
(* Three further variables serve the statements about requests in flight   *)
(* and about the history of a balance: tasks holds the requests the event  *)
(* loop has accepted, running the task that holds the loop, and ledger     *)
(* the exact sums of the credits and debits that succeeded.                *)
(***************************************************************************)
EXTENDS Integers, FiniteSets, Sequences, TLC

VARIABLES users_db, loans_db, response, tasks, running, ledger

vars == <<users_db, loans_db, response, tasks, running, ledger>>

(* ---------------------------- bounds ----------------------------------- *)
MaxBalance == 2     \* finite balances are explored up to this value
MaxTasks == 3       \* requests accepted by the event loop in one run
MaxLedger == 2      \* the sums of the ledger are explored up to this value

(* ---------------------------- floats ----------------------------------- *)
Fin(n) == [cls |-> "fin", val |-> n]
Big(k) == [cls |-> "big", val |-> k]
PosInf == [cls |-> "inf", val |-> 0]
NegInf == [cls |-> "ninf", val |-> 0]
NaN == [cls |-> "nan", val |-> 0]

IsNaN(x) == x.cls = "nan"
IsFinite(x) == x.cls \in {"fin", "big"}

\* a finite float as the pair <<multiple of 2^60, small integer>>
Hi(x) == IF x.cls = "big" THEN x.val ELSE 0
Lo(x) == IF x.cls = "fin" THEN x.val ELSE 0

FNeg(x) ==
    CASE x.cls = "fin" -> Fin(0 - x.val)
      [] x.cls = "big" -> Big(0 - x.val)
      [] x.cls = "inf" -> NegInf
      [] x.cls = "ninf" -> PosInf
      [] OTHER -> NaN

FAdd(x, y) ==
    CASE IsNaN(x) \/ IsNaN(y) -> NaN
      [] x.cls = "fin" /\ y.cls = "fin" -> Fin(x.val + y.val)
      [] x.cls = "big" /\ y.cls = "big" ->
            IF x.val + y.val = 0 THEN Fin(0) ELSE Big(x.val + y.val)
      [] x.cls = "fin" -> y
      [] y.cls = "fin" -> x
      [] x.cls = "big" -> y
      [] y.cls = "big" -> x
      [] x.cls = y.cls -> x
      [] OTHER -> NaN

FSub(x, y) == FAdd(x, FNeg(y))

FLt(x, y) ==
    /\ ~IsNaN(x)
    /\ ~IsNaN(y)
    /\ CASE x.cls = "ninf" -> y.cls # "ninf"
         [] x.cls = "inf" -> FALSE
         [] OTHER -> \/ y.cls = "inf"
                     \/ /\ IsFinite(y)
                        /\ \/ Hi(x) < Hi(y)
                           \/ Hi(x) = Hi(y) /\ Lo(x) < Lo(y)

FLe(x, y) == ~IsNaN(x) /\ ~IsNaN(y) /\ (FLt(x, y) \/ x = y)

FGt(x, y) == FLt(y, x)

FGe(x, y) == FLe(y, x)

(* ---------------------------- inputs ----------------------------------- *)
\* ids carried by requests: 0 fails Path(..., ge=1), 1 and 2 pass it
UserIds == {0, 1, 2}
Names == {"Alice", "Bob"}
\* amounts carried by transaction requests: negative, zero, positive, and the
\* non-finite floats the JSON decoder yields
Amounts == {Fin(0 - 1), Fin(0), Fin(1), PosInf, NaN}
\* amounts carried by loan requests (inf is exercised through transactions)
LoanAmounts == {Fin(0 - 1), Fin(0), Fin(1), NaN}
\* balances a caller may send in the body of create_user
CallerBalances == {Fin(0 - 1), Fin(1), NaN}
TransactionType == {"debit", "credit"}
Transaction == [type : TransactionType, amount : Amounts]

User(id, name, balance) == [id |-> id, name |-> name, balance |-> balance]
Loan(user_id, amount) == [user_id |-> user_id, amount |-> amount]

\* a finite balance stays within the explored range
InRange(x) == IsFinite(x) => x.val <= MaxBalance

(* ---------------------------- responses -------------------------------- *)
\* what a handler raises or returns; Reply tags it with the route that answered
HTTPException(status_code, error) == [status |-> status_code, error |-> error]
Ok(status_code, body) == [status |-> status_code, error |-> "none", body |-> body]
Reply(op, r) ==
    IF r.status \in {200, 201}
    THEN [op |-> op, status |-> r.status, error |-> r.error, body |-> r.body]
    ELSE [op |-> op, status |-> r.status, error |-> r.error]

\* Path(..., ge=1) and Body(..., gt=0) are checked before the handler body runs
RequestValidationError == HTTPException(422, "ValidationError")

(* ---------------------------- dictionaries ----------------------------- *)
\* A Python dict is a function from its keys to its values.  The order in
\* which a dict yields its values is not kept: list(db.values()) is
\* modelled by the collection of the values.
None == [none |-> TRUE]

Keys(db) == DOMAIN db

DictGet(db, k) == IF k \in Keys(db) THEN db[k] ELSE None

\* mutant: the assignment rebinds the dictionary to the one entry
DictSet_rebind(db, k, v) == [x \in {k} |-> v]

DictSet(db, k, v) == [x \in Keys(db) \cup {k} |-> IF x = k THEN v ELSE db[x]]

Values(db) == [items |-> {db[k] : k \in Keys(db)}]

\* mutant: a lookup that hands out a fresh record for an id it does not hold
find_user_by_id_default(user_id) ==
    IF user_id \in Keys(users_db)
    THEN users_db[user_id]
    ELSE [id |-> user_id, name |-> "Alice", balance |-> [cls |-> "fin", val |-> 0]]

find_user_by_id(user_id) == DictGet(users_db, user_id)

find_loan_by_user_id(user_id) == DictGet(loans_db, user_id)

(* ---------------------------- state ------------------------------------ *)
Init ==
    /\ users_db = <<>>
    /\ loans_db = <<>>
    /\ response = [op |-> "start", status |-> 0, error |-> "none"]
    /\ tasks = <<>>
    /\ running = 0
    /\ ledger = <<>>

\* every finite balance of db lies in the explored range; Next takes only
\* the steps that stay in it
Explored(db) == \A k \in Keys(db) : InRange(db[k].balance)

(* ---------------------------- handlers --------------------------------- *)
\* Path(..., ge=1) on user_id
valid_user_id(user_id) == user_id >= 1

\* mutant: the loan amount is declared without gt=0
valid_loan_amount_any(loan_amount) == TRUE

\* Body(..., gt=0) on the loan amount
valid_loan_amount(loan_amount) == FGt(loan_amount, Fin(0))

\* mutant: the duplicate check is dropped
user_exists_never(id) == FALSE

\* create_user: the id is taken already
user_exists(id) == id \in Keys(users_db)

\* mutant: the balance sent by the caller is stored
new_user_keeps_balance(id, name, balance) == User(id, name, balance)

\* create_user: the record that is stored; the balance sent by the caller is dropped
new_user(id, name, balance) == User(id, name, Fin(0))

create_user(id, name, balance) ==
    IF user_exists(id)
    THEN /\ response' = Reply("create_user", HTTPException(400, "AlreadyExists"))
         /\ UNCHANGED <<users_db, loans_db>>
    ELSE /\ users_db' = DictSet(users_db, id, new_user(id, name, balance))
         /\ response' = Reply("create_user", Ok(201, new_user(id, name, balance)))
         /\ UNCHANGED loans_db

\* mutant: only negative amounts are refused
invalid_amount_strict(transaction) == FLt(transaction.amount, Fin(0))

\* perform_transaction: transaction.amount <= 0
invalid_amount(transaction) == FLe(transaction.amount, Fin(0))

\* mutant: the funds check is dropped
insufficient_funds_never(user, transaction) == FALSE

\* perform_transaction: user.balance < transaction.amount
insufficient_funds(user, transaction) == FLt(user.balance, transaction.amount)

\* mutant: a debit is added like a credit
new_balance_always_adds(user, transaction) == FAdd(user.balance, transaction.amount)

\* perform_transaction: the balance left when no check rejects the request
new_balance(user, transaction) ==
    IF transaction.type = "debit"
    THEN FSub(user.balance, transaction.amount)
    ELSE FAdd(user.balance, transaction.amount)

\* mutant: a debit is written before the funds check raises
perform_transaction_call_write_first(user_id, transaction) ==
    LET user == find_user_by_id(user_id)
    IN IF user = None
       THEN [users |-> users_db, result |-> HTTPException(404, "NotFound")]
       ELSE IF invalid_amount(transaction)
       THEN [users |-> users_db, result |-> HTTPException(400, "InvalidAmount")]
       ELSE LET updated == User(user.id, user.name, new_balance(user, transaction))
            IN IF transaction.type = "debit" /\ insufficient_funds(user, transaction)
               THEN [users |-> DictSet(users_db, user_id, updated),
                     result |-> HTTPException(400, "InsufficientFunds")]
               ELSE [users |-> DictSet(users_db, user_id, updated),
                     result |-> Ok(200, updated)]

\* the body of perform_transaction, run for a request and called by take_loan:
\* the users dictionary it leaves and what it returns or raises
perform_transaction_call(user_id, transaction) ==
    LET user == find_user_by_id(user_id)
    IN IF user = None
       THEN [users |-> users_db, result |-> HTTPException(404, "NotFound")]
       ELSE IF invalid_amount(transaction)
       THEN [users |-> users_db, result |-> HTTPException(400, "InvalidAmount")]
       ELSE IF transaction.type = "debit" /\ insufficient_funds(user, transaction)
       THEN [users |-> users_db, result |-> HTTPException(400, "InsufficientFunds")]
       ELSE LET updated == User(user.id, user.name, new_balance(user, transaction))
            IN [users |-> DictSet(users_db, user_id, updated),
                result |-> Ok(200, updated)]

perform_transaction(user_id, transaction) ==
    /\ UNCHANGED loans_db
    /\ IF ~valid_user_id(user_id)
       THEN /\ response' = Reply("perform_transaction", RequestValidationError)
            /\ UNCHANGED users_db
       ELSE \E r \in {perform_transaction_call(user_id, transaction)} :
               /\ users_db' = r.users
               /\ response' = Reply("perform_transaction", r.result)

\* mutant: the existing-loan check is dropped
has_loan_never(user_id) == FALSE

\* take_loan: find_loan_by_user_id(user_id) is truthy
has_loan(user_id) == find_loan_by_user_id(user_id) # None

\* mutant: the loan is returned but not stored
store_loan_skipped(user_id, loan_amount) == loans_db

\* mutant: the loans dictionary is rebound to one holding only the new loan
store_loan_alone(user_id, loan_amount) ==
    [k \in {user_id} |-> Loan(user_id, loan_amount)]

\* mutant: the loan is filed under the key next to the user's
store_loan_misfiled(user_id, loan_amount) ==
    [x \in Keys(loans_db) \cup {user_id - 1} |->
        IF x = user_id - 1 THEN Loan(user_id, loan_amount) ELSE loans_db[x]]

\* take_loan: the loans dictionary after the credit returned
store_loan(user_id, loan_amount) == DictSet(loans_db, user_id, Loan(user_id, loan_amount))

take_loan(user_id, loan_amount) ==
    IF ~valid_user_id(user_id) \/ ~valid_loan_amount(loan_amount)
    THEN /\ response' = Reply("take_loan", RequestValidationError)
         /\ UNCHANGED <<users_db, loans_db>>
    ELSE IF find_user_by_id(user_id) = None
    THEN /\ response' = Reply("take_loan", HTTPException(404, "NotFound"))
         /\ UNCHANGED <<users_db, loans_db>>
    ELSE IF has_loan(user_id)
    THEN /\ response' = Reply("take_loan", HTTPException(400, "AlreadyHasLoan"))
         /\ UNCHANGED <<users_db, loans_db>>
    ELSE LET transaction_to_perform == [type |-> "credit", amount |-> loan_amount]
         IN \E r \in {perform_transaction_call(user_id, transaction_to_perform)} :
            /\ users_db' = r.users
            /\ IF r.result.status # 200
               THEN /\ response' = Reply("take_loan", r.result)
                    /\ UNCHANGED loans_db
               ELSE /\ loans_db' = store_loan(user_id, loan_amount)
                    /\ response' = Reply("take_loan", Ok(201, Loan(user_id, loan_amount)))

get_internal_loan_info(user_id) ==
    /\ UNCHANGED <<users_db, loans_db>>
    /\ IF ~valid_user_id(user_id)
       THEN response' = Reply("get_internal_loan_info", RequestValidationError)
       ELSE response' = Reply("get_internal_loan_info",
                              Ok(200, find_loan_by_user_id(user_id)))

BalanceResponse(user, loan_details) ==
    [user_id |-> user.id, name |-> user.name,
     current_balance |-> user.balance, loan_details |-> loan_details]

\* mutant: the loan lookup is swallowed and no loan is ever shown
balance_view_no_loan(user_id) ==
    LET user == find_user_by_id(user_id)
    IN IF user = None
       THEN HTTPException(404, "NotFound")
       ELSE Ok(200, [user_id |-> user.id, name |-> user.name,
                     current_balance |-> user.balance, loan_details |-> None])

\* get_user_balance_and_loan past the path check; the loan is read by a
\* direct call of get_internal_loan_info, which returns find_loan_by_user_id
balance_view(user_id) ==
    LET user == find_user_by_id(user_id)
        loan_details == find_loan_by_user_id(user_id)
    IN IF user = None
       THEN HTTPException(404, "NotFound")
       ELSE Ok(200, BalanceResponse(user, loan_details))

get_user_balance_and_loan(user_id) ==
    /\ UNCHANGED <<users_db, loans_db>>
    /\ IF ~valid_user_id(user_id)
       THEN response' = Reply("get_user_balance_and_loan", RequestValidationError)
       ELSE response' = Reply("get_user_balance_and_loan", balance_view(user_id))

get_all_users ==
    /\ response' = Reply("get_all_users", Ok(200, Values(users_db)))
    /\ UNCHANGED <<users_db, loans_db>>

get_all_loans ==
    /\ response' = Reply("get_all_loans", Ok(200, Values(loans_db)))
    /\ UNCHANGED <<users_db, loans_db>>

\* a request served on its own: nothing is in flight and no history is kept
Alone == UNCHANGED <<tasks, running, ledger>>

Next ==
    \/ \E id \in UserIds, name \in Names, balance \in CallerBalances :
          create_user(id, name, balance) /\ Alone
    \/ \E user_id \in UserIds, transaction \in Transaction :
          perform_transaction(user_id, transaction) /\ Explored(users_db') /\ Alone
    \/ \E user_id \in UserIds, loan_amount \in LoanAmounts :
          take_loan(user_id, loan_amount) /\ Explored(users_db') /\ Alone
    \/ \E user_id \in UserIds : get_internal_loan_info(user_id) /\ Alone
    \/ \E user_id \in UserIds : get_user_balance_and_loan(user_id) /\ Alone
    \/ get_all_users /\ Alone
    \/ get_all_loans /\ Alone

Spec == Init /\ [][Next]_vars

(* ---------------------------- a scripted run --------------------------- *)
\* The requests create_user(1, "Alice"), credit 100, debit 30, loan 50,
\* loan 10 sent in this order to the handlers, each as soon as user 1 is in
\* the state the one before it leaves.  Between them the reading routes are
\* served and a second user is created, credited and debited.
credit(amount) == [type |-> "credit", amount |-> amount]
debit(amount) == [type |-> "debit", amount |-> amount]

\* user 1 is stored with this balance and without a loan
AliceAt(amount) ==
    /\ 1 \in Keys(users_db)
    /\ users_db[1].balance = amount
    /\ 1 \notin Keys(loans_db)

ScenarioCreate ==
    /\ users_db = <<>>
    /\ \E balance \in CallerBalances : create_user(1, "Alice", balance)

ScenarioCredit == AliceAt(Fin(0)) /\ perform_transaction(1, credit(Fin(100)))

ScenarioDebit == AliceAt(Fin(100)) /\ perform_transaction(1, debit(Fin(30)))

ScenarioLoan == AliceAt(Fin(70)) /\ take_loan(1, Fin(50))

ScenarioSecondLoan == 1 \in Keys(loans_db) /\ take_loan(1, Fin(10))

ScenarioOtherUser ==
    /\ users_db # <<>>
    /\ \/ \E name \in Names, balance \in CallerBalances : create_user(2, name, balance)
       \/ \E transaction \in Transaction :
             /\ perform_transaction(2, transaction)
             /\ 2 \in Keys(users_db') => InRange(users_db'[2].balance)

ScenarioNext ==
    \/ ScenarioCreate /\ Alone
    \/ ScenarioCredit /\ Alone
    \/ ScenarioDebit /\ Alone
    \/ ScenarioLoan /\ Alone
    \/ ScenarioSecondLoan /\ Alone
    \/ ScenarioOtherUser /\ Alone
    \/ \E user_id \in UserIds : get_internal_loan_info(user_id) /\ Alone
    \/ \E user_id \in UserIds : get_user_balance_and_loan(user_id) /\ Alone
    \/ get_all_users /\ Alone
    \/ get_all_loans /\ Alone

SpecScenario == Init /\ [][ScenarioNext]_vars

(* ---------------------------- the history of a balance ----------------- *)
\* The requests for one user, with ledger keeping for that user the sums of
\* the amounts of the credits and of the debits that were answered 200.
\* The sums are exact: an amount is the pair of its multiple of 2^60 and
\* its small integer, and pairs add component by component.
Exact(big, small) == [big |-> big, small |-> small]
ExactValue(x) == Exact(Hi(x), Lo(x))
ExactAdd(x, y) == Exact(x.big + y.big, x.small + y.small)
ExactSub(x, y) == Exact(x.big - y.big, x.small - y.small)

HistoryIds == {1}
\* amounts of the recorded requests: 0, 1 and 2^60
HistoryAmounts == {Fin(0), Fin(1), Big(1)}
HistoryLoanAmounts == {Fin(0), Fin(1)}

NoHistory == [credits |-> Exact(0, 0), debits |-> Exact(0, 0)]

\* the sums of ledger lie in the explored range
LedgerInRange(l) ==
    \A k \in Keys(l) :
       /\ l[k].credits.big <= MaxLedger /\ l[k].credits.small <= MaxLedger
       /\ l[k].debits.big <= MaxLedger /\ l[k].debits.small <= MaxLedger

\* ledger after the perform_transaction request of this step was answered
Recorded(user_id, transaction) ==
    IF response'.status # 200
    THEN ledger
    ELSE IF transaction.type = "credit"
    THEN [ledger EXCEPT ![user_id].credits = ExactAdd(@, ExactValue(transaction.amount))]
    ELSE [ledger EXCEPT ![user_id].debits = ExactAdd(@, ExactValue(transaction.amount))]

HistoryCreate ==
    \E id \in HistoryIds, name \in Names, balance \in CallerBalances :
       /\ create_user(id, name, balance)
       /\ ledger' = IF response'.status = 201
                    THEN DictSet(ledger, id, NoHistory)
                    ELSE ledger
       /\ UNCHANGED <<tasks, running>>

HistoryTransaction ==
    \E user_id \in HistoryIds, type \in TransactionType, amount \in HistoryAmounts :
       /\ perform_transaction(user_id, [type |-> type, amount |-> amount])
       /\ Explored(users_db')
       /\ ledger' = Recorded(user_id, [type |-> type, amount |-> amount])
       /\ LedgerInRange(ledger')
       /\ UNCHANGED <<tasks, running>>

HistoryLoan ==
    \E user_id \in HistoryIds, loan_amount \in HistoryLoanAmounts :
       /\ take_loan(user_id, loan_amount)
       /\ Explored(users_db')
       /\ Alone

HistoryView == \E user_id \in HistoryIds : get_user_balance_and_loan(user_id) /\ Alone

HistoryNext ==
    \/ HistoryCreate
    \/ HistoryTransaction
    \/ HistoryLoan
    \/ HistoryView

SpecHistory == Init /\ [][HistoryNext]_vars

(* ---------------------------- requests in flight ----------------------- *)
\* The handlers are coroutines of one event loop.  A request that has
\* arrived is a task; the loop runs one task at a time, and a task gives
\* the loop back only when it ends or where it awaits something that
\* suspends.  tasks lists the requests in the order they arrived, running
\* is the task that holds the loop (0 when the loop is free).  take_loan
\* is run in three steps, cut where the code's await stands.
TaskIds == 1 .. Len(tasks)
ConcurrentIds == {1}
ConcurrentTransactions == {credit(Fin(1)), debit(Fin(1))}
ConcurrentLoanAmounts == {Fin(1), Fin(2)}

Pending == [status |-> 0, error |-> "none"]

\* a request as it arrives; loan_free, in_flight and credited are history:
\* whether no loan was recorded for the user on arrival, which tasks were
\* unfinished on arrival, and what the task has added to the balance
Task(op, user_id, transaction) ==
    [op |-> op, user_id |-> user_id, transaction |-> transaction,
     pc |-> "accepted", result |-> Pending,
     loan_free |-> user_id \notin Keys(loans_db),
     in_flight |-> {t \in TaskIds : tasks[t].pc # "done"},
     credited |-> Fin(0)]

\* tasks once task t has answered r
Finished(t, r) ==
    [tasks EXCEPT ![t].pc = "done",
                  ![t].result = [status |-> r.status, error |-> r.error]]

\* mutant: the awaited call suspends and hands the loop to another task
await_suspends_always == TRUE

\* take_loan: `await perform_transaction(...)` awaits a coroutine that
\* contains no await of its own, so it runs to its return without
\* suspending
await_suspends == FALSE

accept(op, user_id, transaction) ==
    /\ running = 0
    /\ Len(tasks) < MaxTasks
    /\ tasks' = Append(tasks, Task(op, user_id, transaction))
    /\ UNCHANGED <<users_db, loans_db, response, running, ledger>>

\* perform_transaction holds no await: the whole handler is one step
perform_transaction_task(t) ==
    /\ running = 0
    /\ tasks[t].op = "perform_transaction"
    /\ tasks[t].pc = "accepted"
    /\ perform_transaction(tasks[t].user_id, tasks[t].transaction)
    /\ tasks' = Finished(t, response')
    /\ UNCHANGED <<running, ledger>>

\* take_loan up to the await: the two lookups
take_loan_check(t) ==
    /\ running = 0
    /\ tasks[t].op = "take_loan"
    /\ tasks[t].pc = "accepted"
    /\ UNCHANGED <<users_db, loans_db, ledger>>
    /\ IF find_user_by_id(tasks[t].user_id) = None
       THEN /\ response' = Reply("take_loan", HTTPException(404, "NotFound"))
            /\ tasks' = Finished(t, response')
            /\ UNCHANGED running
       ELSE IF has_loan(tasks[t].user_id)
       THEN /\ response' = Reply("take_loan", HTTPException(400, "AlreadyHasLoan"))
            /\ tasks' = Finished(t, response')
            /\ UNCHANGED running
       ELSE /\ tasks' = [tasks EXCEPT ![t].pc = "await_credit"]
            /\ running' = IF await_suspends THEN 0 ELSE t
            /\ UNCHANGED response

\* take_loan: the awaited credit
take_loan_credit(t) ==
    /\ tasks[t].op = "take_loan"
    /\ tasks[t].pc = "await_credit"
    /\ running = IF await_suspends THEN 0 ELSE t
    /\ UNCHANGED <<loans_db, ledger>>
    /\ \E r \in {perform_transaction_call(tasks[t].user_id, tasks[t].transaction)} :
          /\ users_db' = r.users
          /\ IF r.result.status # 200
             THEN /\ response' = Reply("take_loan", r.result)
                  /\ tasks' = Finished(t, response')
                  /\ running' = 0
             ELSE /\ tasks' = [tasks EXCEPT
                                 ![t].pc = "store",
                                 ![t].credited = FSub(r.users[tasks[t].user_id].balance,
                                                      users_db[tasks[t].user_id].balance)]
                  /\ running' = t
                  /\ UNCHANGED response

\* take_loan after the await returned: the loan is stored and returned
take_loan_store(t) ==
    /\ running = t
    /\ tasks[t].op = "take_loan"
    /\ tasks[t].pc = "store"
    /\ loans_db' = store_loan(tasks[t].user_id, tasks[t].transaction.amount)
    /\ response' = Reply("take_loan",
                         Ok(201, Loan(tasks[t].user_id, tasks[t].transaction.amount)))
    /\ tasks' = Finished(t, response')
    /\ running' = 0
    /\ UNCHANGED <<users_db, ledger>>

ConcurrentCreate ==
    /\ running = 0
    /\ \E id \in ConcurrentIds : create_user(id, "Alice", Fin(1))
    /\ Alone

ConcurrentAccept ==
    \E user_id \in ConcurrentIds :
       \/ \E transaction \in ConcurrentTransactions :
             accept("perform_transaction", user_id, transaction)
       \/ \E loan_amount \in ConcurrentLoanAmounts :
             accept("take_loan", user_id, credit(loan_amount))

ConcurrentNext ==
    \/ ConcurrentCreate
    \/ ConcurrentAccept
    \/ \E t \in TaskIds : perform_transaction_task(t) /\ Explored(users_db')
    \/ \E t \in TaskIds : take_loan_check(t)
    \/ \E t \in TaskIds : take_loan_credit(t) /\ Explored(users_db')
    \/ \E t \in TaskIds : take_loan_store(t)

SpecConcurrent == Init /\ [][ConcurrentNext]_vars

(* ---------------------------- claims ----------------------------------- *)
\* A request that fails Path(..., ge=1) or Body(..., gt=0) is answered 422
\* before the handler body runs; the statements below about an operation
\* are about the requests that pass these declared checks.

balance(user_id) == users_db[user_id].balance

\* C1: in every reachable state every stored user's balance is >= 0.
C1_BalanceNonNegative ==
    \A u \in Keys(users_db) : FGe(balance(u), Fin(0))

\* the ids and amounts a handler body is run with: those that pass
\* Path(..., ge=1) and Body(..., gt=0)
ValidIds == {u \in UserIds : valid_user_id(u)}
ValidLoanAmounts == {a \in LoanAmounts : valid_loan_amount(a)}
StoredIds == {u \in ValidIds : u \in Keys(users_db)}

C3_LoanAllOrNothing ==
    [][response'.op = "take_loan" => \A u \in UserIds, a \in LoanAmounts :
         take_loan(u, a)
         => IF response'.status = 201
            THEN /\ u \notin Keys(loans_db)
                 /\ users_db' = DictSet(users_db, u,
                        User(u, users_db[u].name, FAdd(balance(u), a)))
                 /\ loans_db' = DictSet(loans_db, u, Loan(u, a))
            ELSE /\ response'.error \in {"ValidationError", "NotFound", "AlreadyHasLoan"}
                 /\ users_db' = users_db
                 /\ loans_db' = loans_db]_vars

\* C3 witness: a take_loan of 1 has just answered 201 for user 2, who had a
\* balance of 1: the balance is 2 and the loan of 1 is recorded.
C3_Witness ==
    /\ response.op = "take_loan"
    /\ response.status = 201
    /\ response.body = Loan(2, Fin(1))
    /\ 2 \in Keys(loans_db)
    /\ loans_db[2] = Loan(2, Fin(1))
    /\ balance(2) = Fin(2)

\* C4: for an existing user with balance b and an amount a > 0, a credit
\* answers 200 and leaves b + a; a debit with a <= b answers 200 and leaves
\* b - a, which is 0 when a = b; a debit with a > b fails with
\* InsufficientFunds and leaves b; the returned user is the stored one.
C4_TransactionArithmetic ==
    [][response'.op = "perform_transaction" =>
       \A u \in StoredIds : \A a \in {x \in Amounts : FGt(x, Fin(0))} :
         /\ perform_transaction(u, [type |-> "credit", amount |-> a])
            => /\ response'.status = 200
               /\ users_db'[u].balance = FAdd(balance(u), a)
               /\ response'.body = users_db'[u]
         /\ (FLe(a, balance(u)) /\ perform_transaction(u, [type |-> "debit", amount |-> a]))
            => /\ response'.status = 200
               /\ users_db'[u].balance = FSub(balance(u), a)
               /\ a = balance(u) => users_db'[u].balance = Fin(0)
               /\ response'.body = users_db'[u]
         /\ (FGt(a, balance(u)) /\ perform_transaction(u, [type |-> "debit", amount |-> a]))
            => /\ response'.error = "InsufficientFunds"
               /\ users_db'[u] = users_db[u]]_vars

\* C5: create_user on an id that is not present stores and returns a user
\* with balance 0.0 whatever balance the caller sent, and a
\* get_user_balance_and_loan for that id served right after it reports
\* current_balance 0.0 and no loan details.
C5_NewUserStartsAtZero ==
    [][/\ response'.op = "create_user" =>
          \A id \in UserIds \ Keys(users_db) :
            \A name \in Names, b \in CallerBalances :
               create_user(id, name, b)
               => /\ response'.status = 201
                  /\ response'.body = User(id, name, Fin(0))
                  /\ id \in Keys(users_db')
                  /\ users_db'[id] = User(id, name, Fin(0))
       /\ (/\ response.op = "create_user"
           /\ response.status = 201
           /\ response'.op = "get_user_balance_and_loan") =>
          \A id \in ValidIds \cap {response.body.id} :
            get_user_balance_and_loan(id)
            => /\ response'.status = 200
               /\ response'.body.current_balance = Fin(0)
               /\ response'.body.loan_details = None]_vars

\* C5 witness: the balance view served for user 2, stored with balance 0.0
\* and no loan, next to a user 1 whose balance is not 0.
C5_Witness ==
    /\ response.op = "get_user_balance_and_loan"
    /\ response.status = 200
    /\ response.body.user_id = 2
    /\ response.body.current_balance = Fin(0)
    /\ response.body.loan_details = None
    /\ Keys(users_db) = {1, 2}
    /\ balance(1) = Fin(1)
    /\ Keys(loans_db) = {}

\* C6: create_user on an id that is present fails with AlreadyExists and
\* leaves the record (name, balance) and the loans as they were.
C6_DuplicateCreateRejected ==
    [][response'.op = "create_user" =>
       \A id \in UserIds \cap Keys(users_db) :
         \A name \in Names, b \in CallerBalances :
            create_user(id, name, b)
            => /\ response'.error = "AlreadyExists"
               /\ response'.status = 400
               /\ users_db' = users_db
               /\ loans_db' = loans_db]_vars

\* C6 witness: a create_user was refused while the only user holds a loan
\* of 1 and a balance of 2.
C6_Witness ==
    /\ response.op = "create_user"
    /\ response.error = "AlreadyExists"
    /\ Keys(users_db) = {1}
    /\ balance(1) = Fin(2)
    /\ Keys(loans_db) = {1}

\* C7: perform_transaction on an existing user with an amount <= 0 fails
\* with InvalidAmount and leaves every balance unchanged, debit or credit.
C7_NonPositiveAmountRejected ==
    [][response'.op = "perform_transaction" =>
       \A u \in StoredIds : \A a \in {x \in Amounts : FLe(x, Fin(0))} :
         \A type \in TransactionType :
            perform_transaction(u, [type |-> type, amount |-> a])
            => /\ response'.error = "InvalidAmount"
               /\ response'.status = 400
               /\ users_db' = users_db]_vars

\* C7 witness: a transaction was refused with InvalidAmount on the only
\* user, whose balance is 1.
C7_Witness ==
    /\ response.op = "perform_transaction"
    /\ response.error = "InvalidAmount"
    /\ Keys(users_db) = {1}
    /\ balance(1) = Fin(1)

\* C8: take_loan for a user id that is not stored fails with NotFound,
\* stores neither a loan nor a user and changes no balance.
C8_LoanForUnknownUser ==
    [][response'.op = "take_loan" =>
       \A u \in ValidIds \ StoredIds : \A a \in ValidLoanAmounts :
         take_loan(u, a)
         => /\ response'.error = "NotFound"
            /\ response'.status = 404
            /\ users_db' = users_db
            /\ loans_db' = loans_db]_vars

\* C8 witness: a take_loan was answered NotFound while user 1 is stored
\* with balance 1 and user 2 is not stored.
C8_Witness ==
    /\ response.op = "take_loan"
    /\ response.error = "NotFound"
    /\ Keys(users_db) = {1}
    /\ balance(1) = Fin(1)
    /\ Keys(loans_db) = {}

\* C9: get_user_balance_and_loan fails with NotFound exactly when the user
\* is not stored; otherwise it answers 200 with the stored id, name and
\* balance and with the recorded loan, or None when there is none; it
\* changes neither dictionary.
C9_BalanceView ==
    [][response'.op = "get_user_balance_and_loan" =>
       \A u \in ValidIds :
         get_user_balance_and_loan(u)
         => /\ response'.error = "NotFound" <=> u \notin Keys(users_db)
            /\ u \in Keys(users_db)
               => /\ response'.status = 200
                  /\ response'.body.user_id = u
                  /\ response'.body.name = users_db[u].name
                  /\ response'.body.current_balance = balance(u)
                  /\ response'.body.loan_details =
                        IF u \in Keys(loans_db) THEN loans_db[u] ELSE None
            /\ users_db' = users_db
            /\ loans_db' = loans_db]_vars

\* C9 witness: a balance view that carries a recorded loan of 1 next to a
\* balance of 2.
C9_Witness ==
    /\ response.op = "get_user_balance_and_loan"
    /\ response.status = 200
    /\ response.body.loan_details = Loan(response.body.user_id, Fin(1))
    /\ response.body.current_balance = Fin(2)

\* C10: a recorded loan stays: every step keeps every loan of the loans
\* dictionary under the same key with the same user_id and amount.
C10_LoanPermanent ==
    [][\A u \in Keys(loans_db) :
         /\ u \in Keys(loans_db')
         /\ loans_db'[u] = loans_db[u]]_vars

\* C10 witness: user 1's loan of 1 is still recorded after user 2 took a
\* loan of its own and user 1's balance was debited to 0.
C10_Witness ==
    /\ Keys(loans_db) = {1, 2}
    /\ loans_db[1] = Loan(1, Fin(1))
    /\ balance(1) = Fin(0)
    /\ response.op = "perform_transaction"
    /\ response.status = 200

\* C11: from the empty store the requests create_user(1, "Alice"),
\* credit 100, debit 30, loan 50, loan 10 leave user 1 with the balances
\* 0, 100, 70 and 120, the fourth recording the loan {user_id: 1, amount: 50}
\* and the fifth failing with AlreadyHasLoan while the balance stays 120 and
\* the recorded loan stays 50.
C11_ScriptedRun ==
    [][/\ ScenarioCreate
          => /\ response'.status = 201
             /\ users_db' = DictSet(users_db, 1, User(1, "Alice", Fin(0)))
             /\ loans_db' = loans_db
       /\ ScenarioCredit
          => /\ response'.status = 200
             /\ users_db'[1] = User(1, "Alice", Fin(100))
             /\ loans_db' = loans_db
       /\ ScenarioDebit
          => /\ response'.status = 200
             /\ users_db'[1] = User(1, "Alice", Fin(70))
             /\ loans_db' = loans_db
       /\ ScenarioLoan
          => /\ response'.status = 201
             /\ response'.body = Loan(1, Fin(50))
             /\ users_db'[1] = User(1, "Alice", Fin(120))
             /\ 1 \in Keys(loans_db') /\ loans_db'[1] = Loan(1, Fin(50))
       /\ ScenarioSecondLoan
          => /\ response'.error = "AlreadyHasLoan"
             /\ users_db' = users_db
             /\ users_db[1] = User(1, "Alice", Fin(120))
             /\ loans_db' = loans_db
             /\ loans_db[1] = Loan(1, Fin(50))]_vars

\* C11 witness: the fifth request has been refused with AlreadyHasLoan and
\* user 1 holds 120 and the loan of 50.
C11_Witness ==
    /\ response.op = "take_loan"
    /\ response.error = "AlreadyHasLoan"
    /\ 1 \in Keys(users_db)
    /\ users_db[1] = User(1, "Alice", Fin(120))
    /\ 1 \in Keys(loans_db)
    /\ loans_db[1] = Loan(1, Fin(50))

\* the take_loan tasks for user_id that arrived while it had no loan, those
\* left out that were run before the user was created
LoanRace(user_id) ==
    {t \in TaskIds : /\ tasks[t].op = "take_loan"
                     /\ tasks[t].user_id = user_id
                     /\ tasks[t].loan_free
                     /\ tasks[t].result.error # "NotFound"}

\* C12: take_loan requests in flight together for a user without a loan
\* behave as if served one after the other: once they have all answered,
\* exactly one has answered 201, having added its own amount to the
\* balance, the loan recorded carries that amount, and every other one has
\* failed with AlreadyHasLoan, having added nothing.
C12_ConcurrentLoansAtomic ==
    \A u \in ConcurrentIds :
       (LoanRace(u) # {} /\ \A t \in LoanRace(u) : tasks[t].pc = "done")
       => \E s \in LoanRace(u) :
             /\ tasks[s].result.status = 201
             /\ tasks[s].credited = tasks[s].transaction.amount
             /\ u \in Keys(loans_db)
             /\ loans_db[u] = Loan(u, tasks[s].transaction.amount)
             /\ \A t \in LoanRace(u) \ {s} :
                   /\ tasks[t].result.error = "AlreadyHasLoan"
                   /\ tasks[t].credited = Fin(0)

\* C12 witness: two take_loan requests for user 1, of 2 and of 1, were in
\* flight together while user 1 had no loan; the one that arrived second
\* was run first and succeeded, the other was refused; the balance went
\* from 0 to 1 and the loan of 1 is recorded.
C12_Witness ==
    /\ Len(tasks) = 2
    /\ tasks[1].op = "take_loan" /\ tasks[1].transaction.amount = Fin(2)
    /\ tasks[2].op = "take_loan" /\ tasks[2].transaction.amount = Fin(1)
    /\ tasks[1].loan_free /\ tasks[2].loan_free
    /\ tasks[2].in_flight = {1}
    /\ tasks[2].result.status = 201
    /\ tasks[1].result.error = "AlreadyHasLoan"
    /\ balance(1) = Fin(1)
    /\ loans_db[1] = Loan(1, Fin(1))

\* C13: perform_transaction requests in flight together for one user are
\* applied one after the other, each to the balance the one before it
\* left: a credit of a leaves b + a, a debit of a <= b leaves b - a, a debit
\* of a > b fails with InsufficientFunds and leaves b, where b is the
\* balance when the task is run; no step leaves a negative balance.
C13_ConcurrentTransactionsSerial ==
    [][/\ \A t \in TaskIds :
            (/\ tasks[t].op = "perform_transaction"
             /\ tasks[t].user_id \in Keys(users_db)
             /\ perform_transaction_task(t))
            => LET u == tasks[t].user_id
                   a == tasks[t].transaction.amount
               IN IF tasks[t].transaction.type = "credit"
                  THEN /\ tasks'[t].result.status = 200
                       /\ users_db'[u].balance = FAdd(balance(u), a)
                  ELSE IF FLe(a, balance(u))
                  THEN /\ tasks'[t].result.status = 200
                       /\ users_db'[u].balance = FSub(balance(u), a)
                  ELSE /\ tasks'[t].result.error = "InsufficientFunds"
                       /\ users_db' = users_db
       /\ \A u \in Keys(users_db') : ~FLt(users_db'[u].balance, Fin(0))
       /\ \A u \in Keys(users_db) :
            users_db'[u] # users_db[u]
            => \E t \in TaskIds :
                  /\ tasks[t].user_id = u
                  /\ tasks[t].pc # "done"
                  /\ tasks'[t] # tasks[t]]_vars

\* C13 witness: two debits of 1 for user 1 were in flight together with a
\* credit of 1 that had already answered; each debit was covered by the
\* balance of 1, together they were not: the one run first succeeded, the
\* other failed with InsufficientFunds, and the balance is 0.
C13_Witness ==
    /\ Len(tasks) = 3
    /\ tasks[1].transaction = credit(Fin(1)) /\ tasks[1].op = "perform_transaction"
    /\ tasks[2].transaction = debit(Fin(1)) /\ tasks[2].op = "perform_transaction"
    /\ tasks[3].transaction = debit(Fin(1)) /\ tasks[3].op = "perform_transaction"
    /\ tasks[2].in_flight = {} /\ tasks[3].in_flight = {2}
    /\ tasks[3].result.status = 200
    /\ tasks[2].result.error = "InsufficientFunds"
    /\ balance(1) = Fin(0)

\* C14: every create_user, perform_transaction, take_loan or
\* get_user_balance_and_loan step that ends in AlreadyExists, NotFound,
\* InvalidAmount, InsufficientFunds or AlreadyHasLoan leaves users_db and
\* loans_db exactly as they were.
C14_FailureChangesNothing ==
    [][(/\ response'.op \in {"create_user", "perform_transaction", "take_loan",
                             "get_user_balance_and_loan"}
        /\ response'.error \in {"AlreadyExists", "NotFound", "InvalidAmount",
                                "InsufficientFunds", "AlreadyHasLoan"})
       => /\ users_db' = users_db
          /\ loans_db' = loans_db]_vars

\* C14 witness: a debit was refused with InsufficientFunds while two users
\* are stored, user 1 with a loan of 1 and a balance of 0.
C14_Witness ==
    /\ response.op = "perform_transaction"
    /\ response.error = "InsufficientFunds"
    /\ Keys(users_db) = {1, 2}
    /\ Keys(loans_db) = {1}
    /\ balance(1) = Fin(0)

\* the amounts <= 0 a request can carry
NonPositive(amounts) == {x \in amounts : FLe(x, Fin(0))}

\* C15 (as claimed): the errors come in the order NotFound, AlreadyHasLoan,
\* InvalidAmount: perform_transaction with an amount <= 0 for a user that is
\* not stored fails with NotFound; take_loan with an amount <= 0 for a user
\* that has a loan fails with AlreadyHasLoan; take_loan with an amount <= 0
\* for a stored user without a loan fails with InvalidAmount, stores no loan
\* and leaves the balance.
C15_ErrorPrecedence ==
    [][/\ response'.op = "perform_transaction" =>
          \A u \in ValidIds \ StoredIds : \A a \in NonPositive(Amounts) :
            \A type \in TransactionType :
               perform_transaction(u, [type |-> type, amount |-> a])
               => response'.error = "NotFound"
       /\ response'.op = "take_loan" =>
          \A u \in StoredIds : \A a \in NonPositive(LoanAmounts) :
            take_loan(u, a)
            => IF u \in Keys(loans_db)
               THEN response'.error = "AlreadyHasLoan"
               ELSE /\ response'.error = "InvalidAmount"
                    /\ users_db' = users_db
                    /\ loans_db' = loans_db]_vars

\* C15 (amended): perform_transaction with an amount <= 0 for a user that is
\* not stored fails with NotFound; take_loan with an amount <= 0 is answered
\* 422 by Body(..., gt=0) before any lookup, whether the user is missing,
\* has a loan or has none, and changes neither dictionary; take_loan with an
\* amount > 0 fails with NotFound for a missing user and with AlreadyHasLoan
\* for a user that has a loan.
C15_ValidationPrecedesLookups ==
    [][/\ response'.op = "perform_transaction" =>
          \A u \in ValidIds \ StoredIds : \A a \in NonPositive(Amounts) :
            \A type \in TransactionType :
               perform_transaction(u, [type |-> type, amount |-> a])
               => response'.error = "NotFound"
       /\ response'.op = "take_loan" =>
          \A u \in ValidIds :
            /\ \A a \in NonPositive(LoanAmounts) :
                 take_loan(u, a)
                 => /\ response'.status = 422
                    /\ response'.error = "ValidationError"
                    /\ users_db' = users_db
                    /\ loans_db' = loans_db
            /\ \A a \in ValidLoanAmounts :
                 take_loan(u, a)
                 => /\ u \notin Keys(users_db) => response'.error = "NotFound"
                    /\ u \in Keys(users_db) /\ u \in Keys(loans_db)
                       => response'.error = "AlreadyHasLoan"]_vars

\* C15 witness: a take_loan was answered 422 while both users that pass the
\* path check are stored, user 1 with a loan and user 2 without one.
C15_Witness ==
    /\ response.op = "take_loan"
    /\ response.status = 422
    /\ Keys(users_db) = {1, 2}
    /\ Keys(loans_db) = {1}

\* C16: a stored user stays stored with the same id and name; its balance
\* changes only in a perform_transaction step that answers 200 with that
\* user, to the balance returned, or in a take_loan step that answers 201
\* for that user, by the credit of the loan amount.
C16_UsersPersist ==
    [][\A u \in Keys(users_db) :
         /\ u \in Keys(users_db')
         /\ users_db'[u].id = users_db[u].id
         /\ users_db'[u].name = users_db[u].name
         /\ users_db'[u].balance # users_db[u].balance
            => \/ /\ response'.op = "perform_transaction"
                  /\ response'.status = 200
                  /\ response'.body = users_db'[u]
               \/ /\ response'.op = "take_loan"
                  /\ response'.status = 201
                  /\ response'.body.user_id = u
                  /\ users_db'[u].balance = FAdd(balance(u), response'.body.amount)]_vars

\* C16 witness: user 1 is still stored as Bob after a second user was
\* created and user 1 took a loan that brought its balance to 2.
C16_Witness ==
    /\ Keys(users_db) = {1, 2}
    /\ users_db[1].id = 1
    /\ users_db[1].name = "Bob"
    /\ balance(1) = Fin(2)
    /\ response.op = "take_loan"
    /\ response.status = 201
    /\ response.body.user_id = 1

\* C17: every stored user has an id >= 1, the ids that perform_transaction,
\* take_loan and get_user_balance_and_loan accept.
C17_StoredIdsPositive ==
    \A u \in Keys(users_db) : valid_user_id(u) /\ valid_user_id(users_db[u].id)

\* C18: every key of loans_db is the id of a stored user, the loan under
\* key k has user_id k and an amount > 0, and get_all_loans returns no more
\* loans than get_all_users returns users.
C18_LoansConsistent ==
    /\ \A k \in Keys(loans_db) :
         /\ k \in Keys(users_db)
         /\ loans_db[k].user_id = k
         /\ FGt(loans_db[k].amount, Fin(0))
    /\ Cardinality(Values(loans_db).items) <= Cardinality(Values(users_db).items)
    /\ response.op = "get_all_loans"
       => Cardinality(response.body.items) <= Cardinality(Values(users_db).items)

\* C18 witness: get_all_loans has returned the two loans of users 1 and 2.
C18_Witness ==
    /\ response.op = "get_all_loans"
    /\ response.body.items = {Loan(1, Fin(1)), Loan(2, Fin(1))}
    /\ Keys(users_db) = {1, 2}

\* the amount of the loan recorded for user_id, none counting as 0
LoanExact(user_id) ==
    IF user_id \in Keys(loans_db)
    THEN ExactValue(loans_db[user_id].amount)
    ELSE Exact(0, 0)

\* C19: in every reachable state each user's balance equals the sum of the
\* amounts of its successful credits, plus the amount of its loan if it has
\* one, minus the sum of the amounts of its successful debits.
C19_BalanceConservation ==
    \A u \in Keys(ledger) :
       /\ IsFinite(balance(u))
       /\ ExactValue(balance(u)) =
             ExactSub(ExactAdd(ledger[u].credits, LoanExact(u)), ledger[u].debits)

\* what a step leaves alone when it is addressed to user_id: the record and
\* the loan of every other id, stored or not
OthersUnchanged(user_id) ==
    \A v \in UserIds \ {user_id} :
       /\ DictGet(users_db', v) = DictGet(users_db, v)
       /\ DictGet(loans_db', v) = DictGet(loans_db, v)

\* C20: a step addressed to user id u, whether it succeeds or fails,
\* leaves the record and the loan of every other id as they were: for
\* every u, either the others are unchanged or the step is no request
\* addressed to u; get_all_users and get_all_loans change nothing.
C20_PerUserIsolation ==
    [][/\ response'.op = "create_user" =>
          \A id \in UserIds :
             \/ OthersUnchanged(id)
             \/ \A name \in Names, b \in CallerBalances : ~create_user(id, name, b)
       /\ response'.op = "perform_transaction" =>
          \A u \in UserIds :
             \/ OthersUnchanged(u)
             \/ \A type \in TransactionType, a \in Amounts :
                   ~perform_transaction(u, [type |-> type, amount |-> a])
       /\ response'.op = "take_loan" =>
          \A u \in UserIds :
             \/ OthersUnchanged(u)
             \/ \A a \in LoanAmounts : ~take_loan(u, a)
       /\ response'.op = "get_internal_loan_info" =>
          \A u \in UserIds : OthersUnchanged(u) \/ ~get_internal_loan_info(u)
       /\ response'.op = "get_user_balance_and_loan" =>
          \A u \in UserIds : OthersUnchanged(u) \/ ~get_user_balance_and_loan(u)
       /\ response'.op \in {"get_all_users", "get_all_loans"}
          => users_db' = users_db /\ loans_db' = loans_db]_vars

\* C20 witness: user 1 was just credited to a balance of 2 while user 2
\* keeps its balance of 1 and its loan of 1, and user 1 has no loan.
C20_Witness ==
    /\ response.op = "perform_transaction"
    /\ response.status = 200
    /\ response.body.id = 1
    /\ balance(1) = Fin(2)
    /\ Keys(users_db) = {1, 2}
    /\ balance(2) = Fin(1)
    /\ Keys(loans_db) = {2}
    /\ loans_db[2] = Loan(2, Fin(1))
====
